---------------------------- MODULE Spec2Model ----------------------------
(***************************************************************************)
(* A model of the nerdle-solver crate: the evaluator (eval.rs), the        *)
(* equation generator (gen.rs), the scorer and best-guess ranking          *)
(* (mask.rs) and the interactive filter session (bin/filter.rs).           *)
(*                                                                         *)
(* Strings are sequences of one-character strings.  The characters '²' and *)
(* '³' are written "sq" and "cu".                                          *)
(***************************************************************************)
EXTENDS Integers, Sequences, FiniteSets, TLC

(***************************************************************************)
(* Characters                                                              *)
(***************************************************************************)
Digits == <<"0", "1", "2", "3", "4", "5", "6", "7", "8", "9">>

DigitSet == {Digits[k] : k \in 1..10}

DigitVal(c) == (CHOOSE k \in 1..10 : Digits[k] = c) - 1

IsSpace(c) == c \in {" ", "\t"}

(***************************************************************************)
(* i32: the checked operations of `impl Val for i32`.  Every check is      *)
(* written so that no intermediate value leaves the 32-bit range.          *)
(***************************************************************************)
I32Max == 2147483647

I32Min == (-2147483647) - 1

Ok(v) == [ok |-> TRUE, v |-> v]

Err(e) == [ok |-> FALSE, e |-> e]

\* |a| for a # I32Min
Abs(a) == IF a < 0 THEN 0 - a ELSE a

Sign(a) == IF a < 0 THEN -1 ELSE IF a = 0 THEN 0 ELSE 1

\* i32::checked_add
I32CheckedAdd(a, b) ==
    IF b > 0 /\ a > I32Max - b THEN Err("ComputeError")
    ELSE IF b < 0 /\ a < I32Min - b THEN Err("ComputeError")
    ELSE Ok(a + b)

\* i32::checked_sub
I32CheckedSub(a, b) ==
    IF b < 0 /\ a > I32Max + b THEN Err("ComputeError")
    ELSE IF b > 0 /\ a < I32Min + b THEN Err("ComputeError")
    ELSE Ok(a - b)

\* i32::checked_mul
I32CheckedMul(a, b) ==
    IF a = 0 \/ b = 0 THEN Ok(0)
    ELSE IF a = I32Min THEN (IF b = 1 THEN Ok(a) ELSE Err("ComputeError"))
    ELSE IF b = I32Min THEN (IF a = 1 THEN Ok(b) ELSE Err("ComputeError"))
    ELSE LET x == Abs(a)
             y == Abs(b)
         IN  IF x <= I32Max \div y
             THEN Ok(a * b)
             ELSE IF Sign(a) # Sign(b) /\ I32Max % y = y - 1
                       /\ x = (I32Max \div y) + 1
                  THEN Ok(I32Min)
                  ELSE Err("ComputeError")

\* a % b == 0 in Rust, for b # 0 and (a, b) # (I32Min, -1)
I32Divides(a, b) ==
    IF b = I32Min THEN a = 0 \/ a = I32Min
    ELSE a % Abs(b) = 0

\* the exact quotient a / b when b divides a, (a, b) # (I32Min, -1)
I32ExactQuot(a, b) ==
    IF a = 0 THEN 0
    ELSE IF b = I32Min THEN 1
    ELSE IF a = I32Min
         THEN (IF b > 0 THEN a \div b ELSE 0 - (a \div Abs(b)))
    ELSE Sign(a) * Sign(b) * (Abs(a) \div Abs(b))


\* a division that truncates instead of reporting NonIntegerDivision
I32DivTruncating(a, b) ==
    IF b = 0 THEN Err("ComputeError")
    ELSE IF a = I32Min /\ b = -1 THEN Err("Panic")
    ELSE IF b = I32Min THEN Ok(IF a = I32Min THEN 1 ELSE 0)
    ELSE IF a = I32Min
         THEN LET q == (a \div Abs(b)) + (IF a % Abs(b) = 0 THEN 0 ELSE 1)
              IN  Ok(IF b > 0 THEN q ELSE 0 - q)
    ELSE Ok(Sign(a) * Sign(b) * (Abs(a) \div Abs(b)))

\* i32::div of `impl Val for i32`: `self % other` panics on (MIN, -1)
I32Div(a, b) ==
    IF b = 0 THEN Err("ComputeError")
    ELSE IF a = I32Min /\ b = -1 THEN Err("Panic")
    ELSE IF I32Divides(a, b) THEN Ok(I32ExactQuot(a, b))
    ELSE Err("NonIntegerDivision")

(***************************************************************************)
(* Rational32 = Ratio<i32>: a reduced numerator n over a denominator d > 0 *)
(* with the checked operations of num-rational (every i32 step checked).   *)
(***************************************************************************)
RECURSIVE Gcd(_, _)
\* Integer::gcd on magnitudes below 2^31
Gcd(a, b) == IF b = 0 THEN a ELSE Gcd(b, a % b)

\* Integer::gcd for i32: non-negative; a magnitude of 2^31 overflows
I32Gcd(a, b) ==
    IF a = I32Min \/ b = I32Min
    THEN (IF a = I32Min /\ b = I32Min THEN Err("Panic")
          ELSE IF a = 0 \/ b = 0 THEN Err("Panic")
          ELSE LET o == Abs(IF a = I32Min THEN b ELSE a)
               IN  Ok(Gcd(o, ((I32Max % o) + 1) % o)))
    ELSE Ok(Gcd(Abs(a), Abs(b)))

Ratio(n, d) == [n |-> n, d |-> d]

\* Ratio::new: reduce by the gcd and keep the denominator positive
RatioNew(n, d) ==
    IF n = 0 THEN Ok(Ratio(0, 1))
    ELSE LET g == I32Gcd(n, d)
         IN  IF ~g.ok THEN g
             ELSE LET n1 == I32ExactQuot(n, g.v)
                      d1 == I32ExactQuot(d, g.v)
                  IN  IF d1 < 0
                      THEN (IF n1 = I32Min \/ d1 = I32Min THEN Err("Panic")
                            ELSE Ok(Ratio(0 - n1, 0 - d1)))
                      ELSE Ok(Ratio(n1, d1))

\* Ratio::checked_add / checked_sub (sub = TRUE subtracts)
RatioAddSub(x, y, sub) ==
    LET gcd == Gcd(x.d, y.d)
        lcm == I32CheckedMul(x.d \div gcd, y.d)
    IN  IF ~lcm.ok THEN Err("ComputeError")
        ELSE LET ln == I32CheckedMul(lcm.v \div x.d, x.n)
                 rn == I32CheckedMul(lcm.v \div y.d, y.n)
             IN  IF ~ln.ok \/ ~rn.ok THEN Err("ComputeError")
                 ELSE LET s == IF sub THEN I32CheckedSub(ln.v, rn.v)
                                      ELSE I32CheckedAdd(ln.v, rn.v)
                      IN  IF ~s.ok THEN Err("ComputeError")
                          ELSE RatioNew(s.v, lcm.v)

\* Ratio::checked_mul: cross-reduce, then two checked products
RatioMul(x, y) ==
    IF x.n = 0 \/ y.n = 0 THEN Ok(Ratio(0, 1))
    ELSE LET gad == I32Gcd(x.n, y.d)
             gbc == I32Gcd(x.d, y.n)
         IN  IF ~gad.ok \/ ~gbc.ok THEN Err("Panic")
             ELSE LET n == I32CheckedMul(I32ExactQuot(x.n, gad.v),
                                         I32ExactQuot(y.n, gbc.v))
                      d == I32CheckedMul(x.d \div gbc.v, y.d \div gad.v)
                  IN  IF ~n.ok \/ ~d.ok THEN Err("ComputeError")
                      ELSE RatioNew(n.v, d.v)

\* Ratio::checked_div: None on a zero divisor, else multiply by the inverse
RatioDiv(x, y) ==
    IF y.n = 0 THEN Err("ComputeError")
    ELSE IF x.n = 0 THEN Ok(Ratio(0, 1))
    ELSE LET gac == I32Gcd(x.n, y.n)
             gbd == Gcd(x.d, y.d)
         IN  IF ~gac.ok THEN Err("Panic")
             ELSE LET n == I32CheckedMul(I32ExactQuot(x.n, gac.v), y.d \div gbd)
                      d == I32CheckedMul(x.d \div gbd, I32ExactQuot(y.n, gac.v))
                  IN  IF ~n.ok \/ ~d.ok THEN Err("ComputeError")
                      ELSE IF d.v < 0
                           THEN (IF n.v = I32Min \/ d.v = I32Min
                                 THEN Err("ComputeError")
                                 ELSE RatioNew(0 - n.v, 0 - d.v))
                           ELSE RatioNew(n.v, d.v)

(***************************************************************************)
(* trait Val, for V in {"i32", "Rational32"}                               *)
(***************************************************************************)
ValFromInteger(V, i) == IF V = "i32" THEN i ELSE Ratio(i, 1)

\* Rational32 errors are all ComputeError (`ok_or(ComputeError::ComputeError)`)
AsCompute(r) == IF r.ok \/ r.e = "Panic" THEN r ELSE Err("ComputeError")

ValAdd(V, a, b) ==
    IF V = "i32" THEN I32CheckedAdd(a, b) ELSE AsCompute(RatioAddSub(a, b, FALSE))

ValSub(V, a, b) ==
    IF V = "i32" THEN I32CheckedSub(a, b) ELSE AsCompute(RatioAddSub(a, b, TRUE))

ValMul(V, a, b) ==
    IF V = "i32" THEN I32CheckedMul(a, b) ELSE AsCompute(RatioMul(a, b))

ValDiv(V, a, b) ==
    IF V = "i32" THEN I32Div(a, b) ELSE AsCompute(RatioDiv(a, b))

\* num_traits::checked_pow for the exponents 2 and 3
ValPow(V, a, p) ==
    LET sq == ValMul(V, a, a)
    IN  IF p = 2 \/ ~sq.ok THEN sq ELSE ValMul(V, a, sq.v)

\* Val::to_integer: Some(i) / None
ValToInteger(V, a) ==
    IF V = "i32" THEN Ok(a)
    ELSE IF a.d = 1 THEN Ok(a.n) ELSE Err("NonIntegerResult")

(***************************************************************************)
(* The nom parsers of eval.rs.  A parser takes the input s and the         *)
(* position i of its first unread character and returns                    *)
(*   POk(pos, v)     Ok((rest, v)), rest starting at pos                   *)
(*   PError          nom::Err::Error   (recoverable: alt and fold_many0    *)
(*                                      fall back or stop)                 *)
(*   PFailure(kind)  nom::Err::Failure with ErrorKind kind (make_err)      *)
(*   PPanic          the evaluation panicked                               *)
(***************************************************************************)
POk(pos, v) == [st |-> "ok", pos |-> pos, v |-> v]

PError == [st |-> "error"]

PFailure(kind) == [st |-> "failure", kind |-> kind]

PPanic == [st |-> "panic"]

\* make_err: the ErrorKind a ComputeError is reported with
make_err(e) ==
    IF e = "Panic" THEN PPanic
    ELSE IF e = "ComputeError" THEN PFailure("Fail")
    ELSE PFailure("Float")

RECURSIVE space(_, _)
\* space0: skip spaces and tabs
space(s, i) == IF i <= Len(s) /\ IsSpace(s[i]) THEN space(s, i + 1) ELSE i

RECURSIVE digit(_, _)
\* digit1: the end of the run of digits starting at i
digit(s, i) == IF i <= Len(s) /\ s[i] \in DigitSet THEN digit(s, i + 1) ELSE i

RECURSIVE FromStr(_, _, _, _)
\* i32::from_str on the digits s[i..j-1], acc the value read so far
FromStr(s, i, j, acc) ==
    IF i >= j THEN Ok(acc)
    ELSE LET d == DigitVal(s[i])
         IN  IF acc > (I32Max - d) \div 10 THEN Err("ParseIntError")
             ELSE FromStr(s, i + 1, j, acc * 10 + d)

\* what a fold_many0 leaves when its accumulator acc (a Result) is unwrapped:
\* `.and_then(|(x, v)| v.map(|v| (x, v)).map_err(|e| make_err(i, e)))`
Unfold(r) ==
    IF r.st # "ok" THEN r
    ELSE IF r.v.ok THEN POk(r.pos, r.v.v)
    ELSE make_err(r.v.e)

RECURSIVE parse(_, _, _, _, _)
\* The parsers parens, factor, exponent, term and expr and the three
\* fold_many0 loops, as one recursive definition selected by nt; acc is the
\* accumulator (a Result) of a fold and is unused by the other parsers.
parse(nt, s, i, acc, V) ==
    CASE nt = "parens" ->
         \* delimited(space, delimited(tag("("), expr, tag(")")), space)
         LET j == space(s, i)
         IN  IF j > Len(s) \/ s[j] # "(" THEN PError
             ELSE LET e == parse("expr", s, j + 1, acc, V)
                  IN  IF e.st # "ok" THEN e
                      ELSE IF e.pos > Len(s) \/ s[e.pos] # ")" THEN PError
                      ELSE POk(space(s, e.pos + 1), e.v)
      [] nt = "factor" ->
         \* alt((map_res(delimited(space, digit, space), from_str), parens))
         LET j == space(s, i)
             k == digit(s, j)
             n == FromStr(s, j, k, 0)
         IN  IF k > j /\ n.ok THEN POk(space(s, k), ValFromInteger(V, n.v))
             ELSE parse("parens", s, i, acc, V)
      [] nt = "fold_exponent" ->
         \* fold_many0(alt((char('²'), char('s'), char('³'), char('c'))), ...)
         IF i <= Len(s) /\ s[i] \in {"sq", "s", "cu", "c"}
         THEN LET r == IF ~acc.ok THEN acc
                       ELSE ValPow(V, acc.v, IF s[i] \in {"sq", "s"} THEN 2 ELSE 3)
              IN  IF ~r.ok /\ r.e = "Panic" THEN PPanic
                  ELSE parse("fold_exponent", s, i + 1, r, V)
         ELSE POk(i, acc)
      [] nt = "exponent" ->
         LET f == parse("factor", s, i, acc, V)
         IN  IF f.st # "ok" THEN f
             ELSE Unfold(parse("fold_exponent", s, f.pos, Ok(f.v), V))
      [] nt = "fold_term" ->
         \* fold_many0(pair(alt((char('*'), char('/'))), exponent), ...)
         IF i <= Len(s) /\ s[i] \in {"*", "/"}
         THEN LET e == parse("exponent", s, i + 1, acc, V)
              IN  IF e.st = "error" THEN POk(i, acc)
                  ELSE IF e.st # "ok" THEN e
                  ELSE LET r == IF ~acc.ok THEN acc
                                ELSE IF s[i] = "*" THEN ValMul(V, acc.v, e.v)
                                ELSE ValDiv(V, acc.v, e.v)
                       IN  IF ~r.ok /\ r.e = "Panic" THEN PPanic
                           ELSE parse("fold_term", s, e.pos, r, V)
         ELSE POk(i, acc)
      [] nt = "term" ->
         LET f == parse("exponent", s, i, acc, V)
         IN  IF f.st # "ok" THEN f
             ELSE Unfold(parse("fold_term", s, f.pos, Ok(f.v), V))
      [] nt = "fold_expr" ->
         \* fold_many0(pair(alt((char('+'), char('-'))), term), ...)
         IF i <= Len(s) /\ s[i] \in {"+", "-"}
         THEN LET e == parse("term", s, i + 1, acc, V)
              IN  IF e.st = "error" THEN POk(i, acc)
                  ELSE IF e.st # "ok" THEN e
                  ELSE LET r == IF ~acc.ok THEN acc
                                ELSE IF s[i] = "+" THEN ValAdd(V, acc.v, e.v)
                                ELSE ValSub(V, acc.v, e.v)
                       IN  IF ~r.ok /\ r.e = "Panic" THEN PPanic
                           ELSE parse("fold_expr", s, e.pos, r, V)
         ELSE POk(i, acc)
      [] nt = "expr" ->
         LET f == parse("term", s, i, acc, V)
         IN  IF f.st # "ok" THEN f
             ELSE Unfold(parse("fold_expr", s, f.pos, Ok(f.v), V))

\* expr::<V>(i), the input read from its first character
expr(s, i, V) == parse("expr", s, i, Ok(0), V)

(***************************************************************************)
(* eval: the integer pass, then the rational pass on a Float failure.      *)
(* The result is [ok |-> TRUE, v |-> i32] or [ok |-> FALSE, e |-> kind]    *)
(* with kind "Error", "Fail" or "Float", or "Panic" when the call panics.  *)
(***************************************************************************)
ErrOf(r) ==
    IF r.st = "panic" THEN Err("Panic")
    ELSE IF r.st = "error" THEN Err("Error")
    ELSE Err(r.kind)

\* the arm taken on Failure(Float): expr::<Rational32>(i)?, rem, to_integer
EvalRational(s) ==
    LET q == expr(s, 1, "Rational32")
    IN  IF q.st # "ok" THEN ErrOf(q)
        ELSE IF q.pos <= Len(s) THEN Err("Fail")
        ELSE LET z == ValToInteger("Rational32", q.v)
             IN  IF z.ok THEN z ELSE Err("Float")

\* the guard of the second match arm: Err(Failure(f)) with f.code == Float
IsFloatFailure(r) == r.st = "failure" /\ r.kind = "Float"

\* the arms that return without a second pass
EvalInteger(s, r) ==
    IF r.st = "ok" /\ r.pos > Len(s) THEN Ok(r.v)
    ELSE IF r.st = "ok" THEN Err("Fail")
    ELSE ErrOf(r)

eval(s) ==
    LET r == expr(s, 1, "i32")
    IN  IF IsFloatFailure(r) THEN EvalRational(s) ELSE EvalInteger(s, r)

(***************************************************************************)
(* mask.rs: Masks, score, matches_mask                                     *)
(*                                                                         *)
(* A Masks value is a record of three sets of <<index, char>> pairs, the   *)
(* indices counted from 0 as `enumerate()` does.                           *)
(***************************************************************************)
Masks(c, i, n) == [correct |-> c, incorrect |-> i, not_present |-> n]

MasksDefault == Masks({}, {}, {})

Range(s) == {s[k] : k \in 1..Len(s)}

Min(a, b) == IF a <= b THEN a ELSE b

\* HashMap<char, usize>: a count per character, 0 where there is no entry
CountOf(counts, c) == IF c \in DOMAIN counts THEN counts[c] ELSE 0

SetCount(counts, c, n) ==
    [x \in DOMAIN counts \cup {c} |-> IF x = c THEN n ELSE counts[x]]

EmptyCounts == [x \in {} |-> 0]

RECURSIVE ScoreCorrectCountAll(_, _, _, _)
\* ScoreCorrect with every truth character counted, the matched ones too
ScoreCorrectCountAll(guess, truth, k, st) ==
    IF k > Min(Len(guess), Len(truth)) THEN st
    ELSE ScoreCorrectCountAll(guess, truth, k + 1,
             [st EXCEPT !.m.correct =
                          IF guess[k] = truth[k] THEN @ \cup {<<k - 1, guess[k]>>} ELSE @,
                        !.counts = SetCount(@, truth[k], CountOf(@, truth[k]) + 1)])

RECURSIVE ScoreCorrect(_, _, _, _)
\* the first loop of score, from guess.chars().zip(truth.chars()) item k on:
\* st = [m |-> Masks, counts |-> truth_char_counts]
ScoreCorrect(guess, truth, k, st) ==
    IF k > Min(Len(guess), Len(truth)) THEN st
    ELSE IF guess[k] = truth[k]
         THEN ScoreCorrect(guess, truth, k + 1,
                  [st EXCEPT !.m.correct = @ \cup {<<k - 1, guess[k]>>}])
         ELSE ScoreCorrect(guess, truth, k + 1,
                  [st EXCEPT !.counts =
                       SetCount(@, truth[k], CountOf(@, truth[k]) + 1)])

RECURSIVE ScorePresentNoConsume(_, _, _)
\* ScorePresent with set membership in place of the count: an occurrence of
\* the truth is never used up
ScorePresentNoConsume(guess, k, st) ==
    IF k > Len(guess) THEN st.m
    ELSE IF <<k - 1, guess[k]>> \in st.m.correct
         THEN ScorePresentNoConsume(guess, k + 1, st)
         ELSE IF CountOf(st.counts, guess[k]) > 0
              THEN ScorePresentNoConsume(guess, k + 1,
                       [st EXCEPT !.m.incorrect = @ \cup {<<k - 1, guess[k]>>}])
              ELSE ScorePresentNoConsume(guess, k + 1,
                       [st EXCEPT !.m.not_present = @ \cup {<<k - 1, guess[k]>>}])

RECURSIVE ScorePresent(_, _, _)
\* the second loop of score, from guess.chars().enumerate() item k on
ScorePresent(guess, k, st) ==
    IF k > Len(guess) THEN st.m
    ELSE IF <<k - 1, guess[k]>> \in st.m.correct
         THEN ScorePresent(guess, k + 1, st)
         ELSE IF CountOf(st.counts, guess[k]) > 0
              THEN ScorePresent(guess, k + 1,
                       [st EXCEPT !.counts =
                            SetCount(@, guess[k], CountOf(@, guess[k]) - 1),
                                  !.m.incorrect = @ \cup {<<k - 1, guess[k]>>}])
              ELSE ScorePresent(guess, k + 1,
                       [st EXCEPT !.m.not_present = @ \cup {<<k - 1, guess[k]>>}])

score(guess, truth) ==
    ScorePresent(guess, 1,
        ScoreCorrect(guess, truth, 1, [m |-> MasksDefault, counts |-> EmptyCounts]))

\* guess.chars().enumerate().collect::<BTreeSet<(usize, char)>>()
CharsOf(guess) == {<<k - 1, guess[k]>> : k \in 1..Len(guess)}

RECURSIVE CharCountsAll(_, _, _, _)
\* char_counts filled without the `!mask.correct.contains(&x)` test: every
\* character of guess is counted
CharCountsAll(guess, mask, k, counts) ==
    IF k > Len(guess) THEN counts
    ELSE CharCountsAll(guess, mask, k + 1,
             SetCount(counts, guess[k], CountOf(counts, guess[k]) + 1))

RECURSIVE CharCounts(_, _, _, _)
\* the loop filling char_counts: the characters of guess outside mask.correct
CharCounts(guess, mask, k, counts) ==
    IF k > Len(guess) THEN counts
    ELSE IF <<k - 1, guess[k]>> \notin mask.correct
         THEN CharCounts(guess, mask, k + 1,
                  SetCount(counts, guess[k], CountOf(counts, guess[k]) + 1))
         ELSE CharCounts(guess, mask, k + 1, counts)

\* the first pair of a BTreeSet<(usize, char)> in iteration order
FirstPair(S) ==
    CHOOSE p \in S : \A q \in S : p[1] <= q[1]

RECURSIVE ConsumeIncorrect(_, _)
\* `for (_, c) in &mask.incorrect`: FALSE when a count is already 0, else the
\* counts left
ConsumeIncorrect(S, counts) ==
    IF S = {} THEN [ok |-> TRUE, counts |-> counts]
    ELSE LET p == FirstPair(S)
         IN  IF CountOf(counts, p[2]) = 0 THEN [ok |-> FALSE, counts |-> counts]
             ELSE ConsumeIncorrect(S \ {p},
                      SetCount(counts, p[2], CountOf(counts, p[2]) - 1))

matches_mask(guess, mask) ==
    LET chars == CharsOf(guess)
    IN  IF mask.not_present \cap chars # {} THEN FALSE
        ELSE IF mask.incorrect \cap chars # {} THEN FALSE
        ELSE IF Cardinality(mask.correct \cap chars) < Cardinality(mask.correct)
             THEN FALSE
        ELSE LET r == ConsumeIncorrect(mask.incorrect,
                          CharCounts(guess, mask, 1, EmptyCounts))
             IN  IF ~r.ok THEN FALSE
                 ELSE \A p \in mask.not_present : CountOf(r.counts, p[2]) = 0

(***************************************************************************)
(* mask.rs: compute_entropy and compute_best_guess                         *)
(*                                                                         *)
(* compute_entropy returns t = sum of ct * -log2(matching) over the mask   *)
(* outcomes, which is -log2 of the product P of matching^ct.  The model    *)
(* carries P in place of t: t1 > t2 exactly when P1 < P2, and P = 0 stands *)
(* for t = +infinity (-log2(0)).  For a corpus of at most five strings at  *)
(* most two terms of the sum are non-zero, so the f64 sum is the same in   *)
(* every order of the HashMap and compares as P does.                      *)
(***************************************************************************)
RECURSIVE Pow(_, _)
Pow(b, e) == IF e = 0 THEN 1 ELSE b * Pow(b, e - 1)

\* the HashMap<Masks, usize> of compute_entropy: each outcome and its count
MaskCounts(x, corpus) ==
    LET outcome(k) == score(x, corpus[k])
    IN  [m \in {outcome(k) : k \in 1..Len(corpus)} |->
            Cardinality({k \in 1..Len(corpus) : outcome(k) = m})]

\* corpus.iter().filter(|c| matches_mask(c.as_ref(), &m)).count()
Matching(m, corpus) ==
    Cardinality({k \in 1..Len(corpus) : matches_mask(corpus[k], m)})

RECURSIVE EntropyLoop(_, _, _, _)
\* `for (m, ct) in masks`, over the outcomes S not yet visited
EntropyLoop(S, masks, corpus, P) ==
    IF S = {} THEN P
    ELSE LET m == CHOOSE m \in S : TRUE
         IN  EntropyLoop(S \ {m}, masks, corpus,
                         P * Pow(Matching(m, corpus), masks[m]))

compute_entropy(x, corpus) ==
    LET masks == MaskCounts(x, corpus)
    IN  EntropyLoop(DOMAIN masks, masks, corpus, 1)

\* An item of the mapped iterator: (w.as_ref(), compute_entropy(w, corpus)),
\* w the corpus element at index k (from 1).
RankItem(k, corpus) == [w |-> k, e |-> compute_entropy(corpus[k], corpus)]

NoneVal == [none |-> TRUE]

Pending == [pending |-> TRUE]

\* max_by's reduce operator as rayon defines it (`Ordering::Greater => a,
\* _ => b`), with a.1.total_cmp(&b.1) on the scores: a.e < b.e in P
MaxByKeepFirst(a, b) == IF a.e <= b.e THEN a ELSE b

MaxBy(a, b) == IF a.e < b.e THEN a ELSE b

\* reduce_with's combination of two Option results, left before right
ReduceOpt(left, right) ==
    IF left = NoneVal THEN right
    ELSE IF right = NoneVal THEN left
    ELSE MaxBy(left, right)

RECURSIVE FoldItems(_, _, _, _)
\* one task: the items lo..hi folded in order into acc
FoldItems(corpus, lo, hi, acc) ==
    IF lo > hi THEN acc
    ELSE FoldItems(corpus, lo + 1, hi, ReduceOpt(acc, RankItem(lo, corpus)))

\* compute_best_guess when the whole slice is one task: the (index, P) pair
\* returned, or NoneVal where `.unwrap()` panics
compute_best_guess(corpus) == FoldItems(corpus, 1, Len(corpus), NoneVal)

(***************************************************************************)
(* mask.rs: parse_mask_results                                             *)
(***************************************************************************)
normalize_power(c) == IF c = "s" THEN "sq" ELSE IF c = "c" THEN "cu" ELSE c

CorrectCodes == {"2", "C", "c", "G", "g"}

IncorrectCodes == {"1", "I", "i", "P", "p"}

NotPresentCodes == {"0", "N", "n", "B", "b", "R", "r", " "}

RECURSIVE ParseMaskLoop(_, _, _, _)
\* the loop over mask.chars().zip(guess.chars()).enumerate(), from item k on
ParseMaskLoop(guess, txt, k, m) ==
    IF k > Len(txt) THEN m
    ELSE LET p == <<k - 1, normalize_power(guess[k])>>
         IN  IF txt[k] \in CorrectCodes
             THEN ParseMaskLoop(guess, txt, k + 1, [m EXCEPT !.correct = @ \cup {p}])
             ELSE IF txt[k] \in IncorrectCodes
             THEN ParseMaskLoop(guess, txt, k + 1, [m EXCEPT !.incorrect = @ \cup {p}])
             ELSE IF txt[k] \in NotPresentCodes
             THEN ParseMaskLoop(guess, txt, k + 1, [m EXCEPT !.not_present = @ \cup {p}])
             ELSE NoneVal

\* Some(masks) as the Masks record, None as NoneVal
parse_mask_results(guess, txt) ==
    IF Len(txt) # Len(guess) THEN NoneVal
    ELSE ParseMaskLoop(guess, txt, 1, MasksDefault)

(***************************************************************************)
(* bin/filter.rs: prompt and the pieces of main's loop                     *)
(***************************************************************************)
RECURSIVE TrimStart(_)
TrimStart(s) == IF s # <<>> /\ IsSpace(Head(s)) THEN TrimStart(Tail(s)) ELSE s

RECURSIVE TrimEnd(_)
TrimEnd(s) ==
    IF s # <<>> /\ IsSpace(s[Len(s)]) THEN TrimEnd(SubSeq(s, 1, Len(s) - 1)) ELSE s

\* prompt: the line read, trimmed
prompt(line) == TrimEnd(TrimStart(line))

SampleThreshold == 1000

SampleSize == 500

\* options.choose_multiple(&mut thread_rng(), n): n elements at distinct
\* indices, in any order
Samples(s, n) ==
    {[k \in 1..n |-> s[f[k]]] :
        f \in {g \in [1..n -> 1..Len(s)] : \A i, j \in 1..n : i # j => g[i] # g[j]}}

\* the slices compute_best_guess may be given for `options`
RankedSlices(opts) ==
    IF Len(opts) < SampleThreshold THEN {opts} ELSE Samples(opts, SampleSize)

RECURSIVE RetainSwapRemove(_, _)
\* a filter by swap_remove: a rejected element is replaced by the last one
RetainSwapRemove(opts, m) ==
    IF opts = <<>> THEN <<>>
    ELSE IF matches_mask(Head(opts), m)
         THEN <<Head(opts)>> \o RetainSwapRemove(Tail(opts), m)
         ELSE IF Len(opts) = 1 THEN <<>>
         ELSE RetainSwapRemove(<<opts[Len(opts)]>> \o SubSeq(opts, 2, Len(opts) - 1), m)

RECURSIVE Retain(_, _)
\* options.retain(|o| matches_mask(o, &m))
Retain(opts, m) ==
    IF opts = <<>> THEN <<>>
    ELSE IF matches_mask(Head(opts), m)
         THEN <<Head(opts)>> \o Retain(Tail(opts), m)
         ELSE Retain(Tail(opts), m)

(***************************************************************************)
(* State                                                                   *)
(***************************************************************************)
VARIABLES
    evIn,       \* eval: the input string i
    evPc,       \* eval: "int" (before the integer pass), "rational", "done"
    evInt,      \* eval: what expr::<i32>(i) returned
    evRat,      \* eval: what expr::<Rational32>(i) returned, or NoPass
    evRes,      \* eval: the value returned
    guess,      \* score: the guess
    truth,      \* score: the truth
    mask,       \* score: the Masks value score returned
    consistent, \* score: what matches_mask(truth, mask) returned
    scPc,       \* score: "score", "match", "done"
    bgCorpus,   \* compute_best_guess: the corpus slice
    bgParts,    \* compute_best_guess: the parts the slice is split into,
                \*   each [lo, hi, val], val Pending until its task has run
    bgTasks,    \* compute_best_guess: the number of tasks that have run
    bgPc,       \* compute_best_guess: "run", "done", "panicked"
    bgRes,      \* compute_best_guess: the pair returned
    seFile,     \* filter: the lines of the corpus file
    options,    \* filter: the candidates left
    sePc,       \* filter: "top" (start of the loop body), "guess" and "mask"
                \*   (waiting at a prompt), "returned", "panicked"
    seBest,     \* filter: best_guess
    seGuess,    \* filter: guess
    seMask,     \* filter: what parse_mask_results returned last, NoMask before
    geSlots,    \* gen: slots
    geExtended, \* gen: extended
    geVisitor,  \* gen: the visitor, "line_writer" or "counter" (test_gen's)
    geBuf,      \* gen: buf
    geStack,    \* gen: the calls that have not returned, innermost first,
                \*   each with the number of statements it has executed
    geCall,     \* gen: the call about to be entered, NoCall after the last
    geCt,       \* gen: ct, the count the visitor keeps
    geFile,     \* gen: the lines line_writer has written to f
    geVisited   \* gen: the string of the latest call of the visitor

evalVars == <<evIn, evPc, evInt, evRat, evRes>>

scoreVars == <<guess, truth, mask, consistent, scPc>>

bgVars == <<bgCorpus, bgParts, bgTasks, bgPc, bgRes>>

sessVars == <<seFile, options, sePc, seBest, seGuess, seMask>>

genVars == <<geSlots, geExtended, geVisitor, geBuf, geStack, geCall, geCt,
             geFile, geVisited>>

vars == <<evalVars, scoreVars, bgVars, sessVars, genVars>>

NoCall == [fn |-> "none"]

NoMask == [unset |-> TRUE]

NoPass == [st |-> "none"]

\* A machine that a specification does not run stays idle.
EvalIdle ==
    /\ evIn = <<>>
    /\ evPc = "idle"
    /\ evInt = NoPass
    /\ evRat = NoPass
    /\ evRes = NoPass

ScoreIdle ==
    /\ guess = <<>>
    /\ truth = <<>>
    /\ mask = MasksDefault
    /\ consistent = FALSE
    /\ scPc = "idle"

BgIdle ==
    /\ bgCorpus = <<>>
    /\ bgParts = <<>>
    /\ bgTasks = 0
    /\ bgPc = "idle"
    /\ bgRes = NoneVal

SessIdle ==
    /\ seFile = <<>>
    /\ options = <<>>
    /\ sePc = "idle"
    /\ seBest = <<>>
    /\ seGuess = <<>>
    /\ seMask = NoMask

GenIdle ==
    /\ geSlots = 0
    /\ geExtended = FALSE
    /\ geVisitor = "none"
    /\ geBuf = <<>>
    /\ geStack = <<>>
    /\ geCall = NoCall
    /\ geCt = 0
    /\ geFile = <<>>
    /\ geVisited = <<>>

(***************************************************************************)
(* score and matches_mask on a guess and a truth of equal length           *)
(***************************************************************************)
MaxWordLen == 3

ScoreAlphabet == {"a", "b", "c"}

\* test_score's pair
TestGuess == <<"a", "b", "c">>

TestTruth == <<"c", "b", "d">>

ScorePairs ==
    UNION {[1..n -> ScoreAlphabet] \X [1..n -> ScoreAlphabet] : n \in 0..MaxWordLen}
        \cup {<<TestGuess, TestTruth>>}

ScoreInit ==
    /\ \E pr \in ScorePairs : guess = pr[1] /\ truth = pr[2]
    /\ mask = MasksDefault
    /\ consistent = FALSE
    /\ scPc = "score"

\* let m = score(guess, truth)
ScoreStep ==
    /\ scPc = "score"
    /\ mask' = score(guess, truth)
    /\ scPc' = "match"
    /\ UNCHANGED <<guess, truth, consistent>>
    /\ UNCHANGED <<evalVars, bgVars, sessVars, genVars>>

\* matches_mask(truth, &m)
MatchStep ==
    /\ scPc = "match"
    /\ consistent' = matches_mask(truth, mask)
    /\ scPc' = "done"
    /\ UNCHANGED <<guess, truth, mask>>
    /\ UNCHANGED <<evalVars, bgVars, sessVars, genVars>>

ScoreNext == ScoreStep \/ MatchStep

InitScore == ScoreInit /\ EvalIdle /\ BgIdle /\ SessIdle /\ GenIdle

SpecScore == InitScore /\ [][ScoreNext]_vars

\* C1: for every pair of equal-length strings guess and truth, the truth is
\* consistent with its own feedback: matches_mask(truth, score(guess, truth))
\* is true.
C1_TruthMatchesOwnMask ==
    scPc = "done" => (mask = score(guess, truth) /\ consistent = TRUE)

\* a repeated guess character, once present-elsewhere and once absent, and
\* the truth accepted by the mask
C1_Witness ==
    /\ scPc = "done"
    /\ consistent = TRUE
    /\ \E p \in mask.incorrect : \E q \in mask.not_present : p[2] = q[2]

\* the non-correct positions (from 0) of s holding x
NonCorrect(s, g, t, x) == {i \in 0..(Len(s) - 1) : s[i + 1] = x /\ g[i + 1] # t[i + 1]}

\* the k leftmost elements of a set of positions
Leftmost(S, k) == {i \in S : Cardinality({j \in S : j < i}) < k}

\* the mask Wordle-style scoring prescribes for guess g and truth t
WordleMask(g, t) ==
    LET pos == 0..(Len(g) - 1)
        present(x) == Leftmost(NonCorrect(g, g, t, x),
                               Min(Cardinality(NonCorrect(g, g, t, x)),
                                   Cardinality(NonCorrect(t, g, t, x))))
    IN  Masks({<<i, g[i + 1]>> : i \in {j \in pos : g[j + 1] = t[j + 1]}},
              {<<i, g[i + 1]>> : i \in {j \in pos : g[j + 1] # t[j + 1]
                                             /\ j \in present(g[j + 1])}},
              {<<i, g[i + 1]>> : i \in {j \in pos : g[j + 1] # t[j + 1]
                                             /\ j \notin present(g[j + 1])}})

\* C2: score puts every guess position in exactly one of correct /
\* present-elsewhere / absent; a position is correct iff guess and truth agree
\* there; for each character x the present-elsewhere positions are the
\* leftmost k non-correct guess positions holding x, k the smaller of the
\* numbers of non-correct guess and truth positions holding x; the other
\* non-correct positions are absent.
C2_ScoreIsWordle ==
    scPc \in {"match", "done"} =>
        /\ mask = WordleMask(guess, truth)
        /\ \A i \in 0..(Len(guess) - 1) :
               Cardinality({S \in {mask.correct, mask.incorrect, mask.not_present} :
                               <<i, guess[i + 1]>> \in S}) = 1
        /\ Cardinality(mask.correct) + Cardinality(mask.incorrect)
               + Cardinality(mask.not_present) = Len(guess)

\* x twice in the guess and once elsewhere in the truth: one present-elsewhere
\* (the left one) and one absent
C2_Witness ==
    /\ scPc = "match"
    /\ \E x \in ScoreAlphabet :
           /\ Cardinality(NonCorrect(guess, guess, truth, x)) = 2
           /\ Cardinality(NonCorrect(truth, guess, truth, x)) = 1
           /\ \E p \in mask.incorrect : \E q \in mask.not_present :
                  p[2] = x /\ q[2] = x /\ p[1] < q[1]

(***************************************************************************)
(* compute_best_guess as rayon runs it: the slice is split in halves into  *)
(* tasks, every task folds its items in order, and the results of          *)
(* neighbouring parts are reduced, left before right.  Neighbours are      *)
(* joined in any order, which covers every join order of the split tree.   *)
(***************************************************************************)
MaxCorpus == 3

W_abc == <<"a", "b", "c">>

W_abd == <<"a", "b", "d">>

W_aba == <<"a", "b", "a">>

W_bab == <<"b", "a", "b">>

BgWords == {W_abc, W_abd, W_aba, W_bab}

SeqsUpTo(S, n) == UNION {[1..k -> S] : k \in 0..n}

BgInit ==
    /\ bgCorpus \in SeqsUpTo(BgWords, MaxCorpus)
    /\ bgParts = <<[lo |-> 1, hi |-> Len(bgCorpus), val |-> Pending]>>
    /\ bgTasks = 0
    /\ bgPc = "run"
    /\ bgRes = NoneVal

Splice(parts, k, n, new) ==
    SubSeq(parts, 1, k - 1) \o new \o SubSeq(parts, k + n, Len(parts))

\* a pending part of two items or more is split at its middle
BgSplit ==
    /\ bgPc = "run"
    /\ \E k \in 1..Len(bgParts) :
           LET q == bgParts[k]
               mid == q.lo + ((q.hi - q.lo + 1) \div 2)
           IN  /\ q.val = Pending
               /\ q.hi - q.lo + 1 >= 2
               /\ bgParts' = Splice(bgParts, k, 1,
                                 <<[lo |-> q.lo, hi |-> mid - 1, val |-> Pending],
                                   [lo |-> mid, hi |-> q.hi, val |-> Pending]>>)
    /\ UNCHANGED <<bgCorpus, bgTasks, bgPc, bgRes>>
    /\ UNCHANGED <<evalVars, scoreVars, sessVars, genVars>>

\* a task runs: map and fold over its part
BgFold ==
    /\ bgPc = "run"
    /\ \E k \in 1..Len(bgParts) :
           /\ bgParts[k].val = Pending
           /\ bgParts' = [bgParts EXCEPT ![k].val =
                             FoldItems(bgCorpus, bgParts[k].lo, bgParts[k].hi, NoneVal)]
    /\ bgTasks' = bgTasks + 1
    /\ UNCHANGED <<bgCorpus, bgPc, bgRes>>
    /\ UNCHANGED <<evalVars, scoreVars, sessVars, genVars>>

\* two finished neighbours are reduced into one part
BgJoin ==
    /\ bgPc = "run"
    /\ \E k \in 1..(Len(bgParts) - 1) :
           LET l == bgParts[k]
               r == bgParts[k + 1]
           IN  /\ l.val # Pending
               /\ r.val # Pending
               /\ bgParts' = Splice(bgParts, k, 2,
                                 <<[lo |-> l.lo, hi |-> r.hi,
                                    val |-> ReduceOpt(l.val, r.val)]>>)
    /\ UNCHANGED <<bgCorpus, bgTasks, bgPc, bgRes>>
    /\ UNCHANGED <<evalVars, scoreVars, sessVars, genVars>>

\* `.unwrap()` on the reduced Option
BgUnwrap ==
    /\ bgPc = "run"
    /\ Len(bgParts) = 1
    /\ bgParts[1].val # Pending
    /\ IF bgParts[1].val = NoneVal
       THEN bgPc' = "panicked" /\ bgRes' = bgRes
       ELSE bgPc' = "done" /\ bgRes' = bgParts[1].val
    /\ UNCHANGED <<bgCorpus, bgParts, bgTasks>>
    /\ UNCHANGED <<evalVars, scoreVars, sessVars, genVars>>

BgNext == BgSplit \/ BgFold \/ BgJoin \/ BgUnwrap

InitBestGuess == BgInit /\ EvalIdle /\ ScoreIdle /\ SessIdle /\ GenIdle

SpecBestGuess == InitBestGuess /\ [][BgNext]_vars

\* the indices of the corpus elements whose score is maximal (P minimal)
BestIndices(corpus) ==
    {k \in 1..Len(corpus) :
        \A j \in 1..Len(corpus) :
            compute_entropy(corpus[k], corpus) <= compute_entropy(corpus[j], corpus)}

\* C3 (as stated): compute_best_guess returns a corpus element of maximal
\* score with that score, and among several of maximal score the first in
\* corpus scan order, however the work is split.
C3_FirstBest ==
    bgPc = "done" =>
        /\ bgRes.w \in BestIndices(bgCorpus)
        /\ bgRes.e = compute_entropy(bgCorpus[bgRes.w], bgCorpus)
        /\ \A k \in BestIndices(bgCorpus) : bgRes.w <= k

\* C3 (amended): compute_best_guess returns a corpus element of maximal score
\* with that score, and among several of maximal score the last in corpus
\* scan order, however the work is split and in whatever order tasks finish.
C3_LastBest ==
    bgPc = "done" =>
        /\ bgRes.w \in BestIndices(bgCorpus)
        /\ bgRes.e = compute_entropy(bgCorpus[bgRes.w], bgCorpus)
        /\ \A k \in BestIndices(bgCorpus) : bgRes.w >= k

\* test_compute_best_guess's corpus, split into more than one task, returns
\* "aba" with t = -2 (P = 4) although "abc" scores the same
C3_Witness ==
    /\ bgPc = "done"
    /\ bgCorpus = <<W_abc, W_abd, W_aba>>
    /\ bgTasks > 1
    /\ Cardinality(BestIndices(bgCorpus)) > 1
    /\ bgCorpus[bgRes.w] = W_aba
    /\ bgRes.e = 4

(***************************************************************************)
(* bin/filter.rs: the interactive session.  One action per stretch of      *)
(* main's loop between two reads of standard input.                        *)
(***************************************************************************)
MaxOptions == 3

\* the lines an operator may type at the guess prompt
GuessLines == BgWords \cup {<<>>, <<" ">>, <<"a", "b">>}

MaxMaskLen == 3

\* the lines an operator may type at the mask prompt
MaskLines == SeqsUpTo({"2", "1", "0", "x"}, MaxMaskLen) \cup {<<" ">>, <<"G", "P", "B">>}

SessInit ==
    /\ seFile \in SeqsUpTo(BgWords, MaxOptions)
    /\ options = seFile
    /\ sePc = "top"
    /\ seBest = <<>>
    /\ seGuess = <<>>
    /\ seMask = NoMask

\* lines 23-51: rank the options; `.unwrap()` in compute_best_guess panics on
\* an empty slice; with one option left main returns
SessTop ==
    /\ sePc = "top"
    /\ \E slice \in RankedSlices(options) :
           LET best == compute_best_guess(slice)
           IN  IF best = NoneVal
               THEN sePc' = "panicked" /\ seBest' = seBest
               ELSE /\ seBest' = slice[best.w]
                    /\ sePc' = IF Len(options) = 1 THEN "returned" ELSE "guess"
    /\ UNCHANGED <<seFile, options, seGuess, seMask>>
    /\ UNCHANGED <<evalVars, scoreVars, bgVars, genVars>>

\* lines 54-59: read the guess; an empty one is replaced by best_guess
SessGuess ==
    /\ sePc = "guess"
    /\ \E line \in GuessLines :
           seGuess' = IF prompt(line) = <<>> THEN seBest ELSE prompt(line)
    /\ sePc' = "mask"
    /\ UNCHANGED <<seFile, options, seBest, seMask>>
    /\ UNCHANGED <<evalVars, scoreVars, bgVars, genVars>>

\* lines 61-67: an empty mask line is asked for again
SessMaskEmpty ==
    /\ sePc = "mask"
    /\ \E line \in MaskLines : prompt(line) = <<>>
    /\ UNCHANGED sessVars
    /\ UNCHANGED <<evalVars, scoreVars, bgVars, genVars>>

\* SessMask with a mask that does not parse treated as one that matches nothing
SessMaskDropOnError ==
    /\ sePc = "mask"
    /\ \E line \in MaskLines :
           LET m == parse_mask_results(seGuess, prompt(line))
           IN  /\ prompt(line) # <<>>
               /\ seMask' = m
               /\ options' = IF m # NoneVal THEN Retain(options, m) ELSE <<>>
    /\ sePc' = "top"
    /\ UNCHANGED <<seFile, seBest, seGuess>>
    /\ UNCHANGED <<evalVars, scoreVars, bgVars, genVars>>

\* lines 61-72: a mask line is parsed and, when it parses, filters the options;
\* either way the loop starts over
SessMask ==
    /\ sePc = "mask"
    /\ \E line \in MaskLines :
           LET m == parse_mask_results(seGuess, prompt(line))
           IN  /\ prompt(line) # <<>>
               /\ seMask' = m
               /\ options' = IF m # NoneVal THEN Retain(options, m) ELSE options
    /\ sePc' = "top"
    /\ UNCHANGED <<seFile, seBest, seGuess>>
    /\ UNCHANGED <<evalVars, scoreVars, bgVars, genVars>>

SessNext == SessTop \/ SessGuess \/ SessMaskEmpty \/ SessMask

InitSession == SessInit /\ EvalIdle /\ ScoreIdle /\ BgIdle /\ GenIdle

SpecSession == InitSession /\ [][SessNext]_vars

IsMasks(m) == m # NoMask /\ m # NoneVal

RECURSIVE IsSubseq(_, _)
\* a is b with some elements left out
IsSubseq(a, b) ==
    IF a = <<>> THEN TRUE
    ELSE IF b = <<>> THEN FALSE
    ELSE IF Head(a) = Head(b) THEN IsSubseq(Tail(a), Tail(b))
    ELSE IsSubseq(a, Tail(b))

\* C4: whenever applying a mask filters the corpus down to zero candidates the
\* session ends in a distinguished, reported Exhausted outcome: it never
\* aborts, never prompts again on the empty corpus and never reports
\* convergence.
C4_ExhaustionSurfaced ==
    (options = <<>> /\ IsMasks(seMask)) => sePc \in {"top", "exhausted"}

\* C5 (as stated): a malformed mask is a no-op that leaves the session waiting
\* for a mask for the same guess.
C5_StaysAwaitingFeedback ==
    [][(sePc = "mask" /\ seMask' = NoneVal) =>
           (options' = options /\ seGuess' = seGuess /\ sePc' = "mask")]_vars

\* C5 (amended): a malformed mask (length different from the guess, or a code
\* outside the accepted sets) leaves the corpus unchanged, and the round
\* starts over: the loop returns to its top and the next input requested is a
\* new guess.
C5_MalformedMaskRestartsRound ==
    [][/\ (sePc = "mask" /\ seMask' = NoneVal) =>
              (options' = options /\ seFile' = seFile /\ sePc' = "top")
       /\ (sePc = "top" /\ seMask = NoneVal) =>
              (options' = options /\ sePc' = "guess" /\ seBest' \in Range(options))]_vars

\* after a malformed mask for a typed guess the session asks for a guess
C5_Witness ==
    /\ sePc = "guess"
    /\ seMask = NoneVal
    /\ seGuess # <<>>
    /\ seGuess # seBest
    /\ options = seFile

\* C6: the corpus only shrinks: after every step it is a sub-sequence of its
\* previous value, hence of the corpus file, and filtering the result of a
\* filtering step again with the same mask leaves it unchanged.
C6_CorpusOnlyShrinks ==
    [][/\ IsSubseq(options', options)
       /\ IsSubseq(options', seFile)
       /\ (sePc = "mask" /\ IsMasks(seMask')) =>
              (/\ Retain(options', seMask') = options'
               /\ \A k \in 1..Len(options') : matches_mask(options'[k], seMask')
               /\ Len(options') =
                      Cardinality({k \in 1..Len(options) : matches_mask(options[k], seMask')}))]_vars

\* a mask has removed some candidates and kept others
C6_Witness ==
    /\ IsMasks(seMask)
    /\ sePc = "top"
    /\ Len(options) >= 2
    /\ Len(options) < Len(seFile)

(***************************************************************************)
(* eval as a machine: one step per pass                                    *)
(***************************************************************************)
MaxExprLen == 5

EvalAlphabet == {"0", "2", "4", "/", "*", "-", "(", ")"}

\* the inputs of test_evaluator, and the examples without their spaces
TestExprs ==
    { <<" ", "(", " ", " ", "2", " ", ")">>,
      <<" ", "2", "*", " ", "(", " ", " ", "3", " ", "+", " ", "4", " ", ")", " ">>,
      <<" ", " ", "2", "*", "2", " ", "/", " ", "(", " ", "5", " ", "-", " ",
        "1", ")", " ", "+", " ", "3">>,
      <<"(", "5", "/", "4", ")", " ", "*", " ", "(", "4", "/", "5", ")">>,
      <<"(", "5", "/", "4", ")", "*", "(", "4", "/", "5", ")">>,
      <<"0", "cu", "/", "1", "5", "+", "3", "sq">>,
      <<"0", "c", "/", "1", "5", "+", "3", "s">>,
      <<"4", "/", "5">>,
      <<"4", "/", "5", " ", "x">>,
      <<"2", "s", "s">>,
      <<"1", "/", "2", "/", "0">> }

\* inputs whose integer pass reaches the ends of the i32 range
OverflowExprs ==
    { <<"2", "1", "4", "7", "4", "8", "3", "6", "4", "7", "+", "1">>,
      <<"0", "-", "2", "1", "4", "7", "4", "8", "3", "6", "4", "7", "-", "2">>,
      <<"6", "5", "5", "3", "6", "*", "6", "5", "5", "3", "6">>,
      <<"6", "5", "5", "3", "6", "s">>,
      <<"2", "0", "4", "8", "c">>,
      <<"2", "1", "4", "7", "4", "8", "3", "6", "4", "8">>,
      <<"0", "-", "2", "1", "4", "7", "4", "8", "3", "6", "4", "7", "-", "1">>,
      <<"(", "0", "-", "2", "1", "4", "7", "4", "8", "3", "6", "4", "7", "-", "1", ")", "/", "(", "0", "-", "1", ")">>,
      <<"(", "0", "-", "2", "1", "4", "7", "4", "8", "3", "6", "4", "7", "-", "1", ")", "/", "2">> }

StringsUpTo(A, n) == UNION {[1..k -> A] : k \in 0..n}

EvalInputs == StringsUpTo(EvalAlphabet, MaxExprLen) \cup TestExprs \cup OverflowExprs

EvalInit ==
    /\ evIn \in EvalInputs
    /\ evPc = "int"
    /\ evInt = NoPass
    /\ evRat = NoPass
    /\ evRes = NoPass

\* match expr::<i32>(i): every arm but the Float one returns
EvalIntPass ==
    /\ evPc = "int"
    /\ LET r == expr(evIn, 1, "i32")
       IN  /\ evInt' = r
           /\ IF IsFloatFailure(r)
              THEN evPc' = "rational" /\ evRes' = evRes
              ELSE evPc' = "done" /\ evRes' = EvalInteger(evIn, r)
    /\ UNCHANGED <<evIn, evRat>>
    /\ UNCHANGED <<scoreVars, bgVars, sessVars, genVars>>

\* the Float arm: the whole input again, with Rational32
EvalRationalPass ==
    /\ evPc = "rational"
    /\ evRat' = expr(evIn, 1, "Rational32")
    /\ evRes' = EvalRational(evIn)
    /\ evPc' = "done"
    /\ UNCHANGED <<evIn, evInt>>
    /\ UNCHANGED <<scoreVars, bgVars, sessVars, genVars>>

EvalNext == EvalIntPass \/ EvalRationalPass

InitEval == EvalInit /\ ScoreIdle /\ BgIdle /\ SessIdle /\ GenIdle

SpecEval == InitEval /\ [][EvalNext]_vars

\* some '/' of s is followed by an operand whose value is zero
DividesByZero(s) ==
    \E i \in 1..Len(s) :
        /\ s[i] = "/"
        /\ LET e == parse("exponent", s, i + 1, Ok(0), "i32")
           IN  e.st = "ok" /\ e.v = 0

Consumed(s, r) == r.st = "ok" /\ r.pos > Len(s)

\* C10: eval applies the two-phase policy.  When the checked-integer pass
\* succeeds with all input consumed its value is returned and no second pass
\* runs; when that pass hits an inexact division the whole input is evaluated
\* again with exact rationals and the value is returned iff that pass consumes
\* the input and ends on an integer ("(5/4)*(4/5)" gives 1, "4/5" fails);
\* division by zero and trailing input fail in either pass; a returned value
\* is the exact rational value of the expression, never a truncated quotient.
C10_TwoPhasePolicy ==
    evPc = "done" =>
        LET q == expr(evIn, 1, "Rational32")
        IN  /\ Consumed(evIn, evInt) => (evRes = Ok(evInt.v) /\ evRat = NoPass)
            /\ IsFloatFailure(evInt) =>
                   /\ evRat = q
                   /\ evRes.ok <=> (Consumed(evIn, q) /\ q.v.d = 1)
                   /\ evRes.ok => evRes.v = q.v.n
            /\ ~IsFloatFailure(evInt) => evRat = NoPass
            /\ (evInt.st = "ok" /\ evInt.pos <= Len(evIn)) => ~evRes.ok
            /\ (evRat # NoPass /\ evRat.st = "ok" /\ evRat.pos <= Len(evIn)) => ~evRes.ok
            /\ DividesByZero(evIn) => ~evRes.ok
            /\ evRes.ok => (q.st = "ok" => (Consumed(evIn, q) /\ q.v = Ratio(evRes.v, 1)))
            /\ evIn = <<"(", "5", "/", "4", ")", "*", "(", "4", "/", "5", ")">>
                   => evRes = Ok(1)
            /\ evIn = <<"4", "/", "5">> => ~evRes.ok

\* the rational pass has turned an inexact integer pass into the value 1
C10_Witness ==
    /\ evPc = "done"
    /\ evIn = <<"(", "5", "/", "4", ")", " ", "*", " ", "(", "4", "/", "5", ")">>
    /\ IsFloatFailure(evInt)
    /\ evRat # NoPass
    /\ evRes = Ok(1)

(***************************************************************************)
(* gen.rs: the recursive generator.                                        *)
(*                                                                         *)
(* The body of each gen_* function is a fixed list of statements once its  *)
(* arguments are known: writes `buf[index] = c` and calls.  Each function  *)
(* below gives that list for its arguments, empty when the function        *)
(* returns at one of its guards.  A call is the record of its arguments;   *)
(* ndigits and extended are 0 and FALSE for the functions without them.    *)
(***************************************************************************)
Write(index, c) == [op |-> "write", index |-> index, c |-> c]

Call(fn, index, depth, ndigits, ext) ==
    [op |-> "call", fn |-> fn, index |-> index, depth |-> depth,
     ndigits |-> ndigits, extended |-> ext]

\* 1..10, and 1..10 with zero as well
NzDigitsWithZero == <<"0", "1", "2", "3", "4", "5", "6", "7", "8", "9">>

\* `1..10`
NzDigits == <<"1", "2", "3", "4", "5", "6", "7", "8", "9">>

\* `(1..10).chain(std::iter::once(0))`
DigitsThenZero == <<"1", "2", "3", "4", "5", "6", "7", "8", "9", "0">>

\* `[b'-', b'+', b'*', b'/']`
Opers == <<"-", "+", "*", "/">>

RECURSIVE ForEach(_, _, _)
\* `for c in cs { buf[index] = c; body }`
ForEach(cs, index, body) ==
    IF cs = <<>> THEN <<>>
    ELSE <<Write(index, Head(cs))>> \o body \o ForEach(Tail(cs), index, body)

\* the statements after the write in the loops of gen_nz_digit and gen_digit
DigitBody(index, depth, ndigits, ext) ==
    <<Call("try_gen_eq", index + 1, depth, 0, FALSE),
      Call("gen_digit", index + 1, depth, ndigits, ext),
      Call("gen_oper", index + 1, depth, 0, ext)>>
    \o (IF ext
        THEN <<Call("gen_squared", index + 1, depth, 0, FALSE),
               Call("gen_cubed", index + 1, depth, 0, FALSE)>>
             \o (IF depth > 0
                 THEN <<Call("gen_close", index + 1, depth, 0, FALSE)>>
                 ELSE <<>>)
        ELSE <<>>)

gen_nz_digit(index, depth, buf, ext) ==
    IF index >= Len(buf) - 2 THEN <<>>
    ELSE ForEach(NzDigits, index, DigitBody(index, depth, 1, ext))

gen_digit(index, depth, ndigits, buf, ext) ==
    IF index >= Len(buf) - 2 THEN <<>>
    ELSE IF ndigits >= (Len(buf) - 2) \div 2 THEN <<>>
    ELSE ForEach(DigitsThenZero, index, DigitBody(index, depth, ndigits + 1, ext))

gen_oper(index, depth, buf, ext) ==
    IF index > Len(buf) - 3 THEN <<>>
    ELSE ForEach(Opers, index,
                 <<Call("gen_nz_digit", index + 1, depth, 0, ext),
                   Call("gen_open", index + 1, depth, 0, FALSE)>>)

\* the tail that gen_squared and gen_cubed share
PowerBody(index, depth, minIndex) ==
    (IF index >= minIndex
     THEN <<Call("try_gen_eq", index + 1, depth, 0, FALSE)>> ELSE <<>>)
    \o <<Call("gen_oper", index + 1, depth, 0, TRUE)>>
    \o (IF depth > 0
        THEN <<Call("gen_close", index + 1, depth, 0, FALSE)>> ELSE <<>>)

gen_squared(index, depth, buf) ==
    IF index > Len(buf) - 2 THEN <<>>
    ELSE <<Write(index, "s")>> \o PowerBody(index, depth, 3)

gen_cubed(index, depth, buf) ==
    IF index > Len(buf) - 2 THEN <<>>
    ELSE <<Write(index, "c")>> \o PowerBody(index, depth, 2)

gen_open(index, depth, buf) ==
    IF index > Len(buf) - 3 THEN <<>>
    ELSE <<Write(index, "("),
           Call("gen_nz_digit", index + 1, depth + 1, 0, TRUE),
           Call("gen_open", index + 1, depth + 1, 0, FALSE)>>

gen_close(index, depth, buf) ==
    IF index > Len(buf) - 2 THEN <<>>
    ELSE <<Write(index, ")"),
           Call("try_gen_eq", index + 1, depth - 1, 0, FALSE),
           Call("gen_oper", index + 1, depth - 1, 0, TRUE),
           Call("gen_squared", index + 1, depth - 1, 0, FALSE),
           Call("gen_cubed", index + 1, depth - 1, 0, FALSE)>>
         \o (IF depth - 1 > 0
             THEN <<Call("gen_close", index + 1, depth - 1, 0, FALSE)>>
             ELSE <<>>)

\* gen, after `let mut buf = vec![0; slots]`
gen(ext) ==
    <<Call("gen_nz_digit", 0, 0, 0, ext)>>
    \o (IF ext THEN <<Call("gen_open", 0, 0, 0, FALSE)>> ELSE <<>>)

RECURSIVE Decimal(_)
\* `write!(.., "{}", v)` for v >= 0
Decimal(v) ==
    IF v < 10 THEN <<Digits[v + 1]>>
    ELSE Decimal(v \div 10) \o <<Digits[(v % 10) + 1]>>

RECURSIVE ilog10(_)
\* u32::ilog10 for v > 0
ilog10(v) == IF v < 10 THEN 0 ELSE 1 + ilog10(v \div 10)

\* the body of `if let Ok(v) = eval(expr)` for v >= 0
TryGenEqOk(index, buf, v) ==
    LET v_len == IF v = 0 THEN 1 ELSE ilog10(v) + 1
    IN  IF index + v_len + 1 = Len(buf)
        THEN [visit |-> TRUE,
              buf |-> SubSeq(buf, 1, index) \o <<"=">> \o Decimal(v)]
        ELSE [visit |-> FALSE, buf |-> buf]

\* try_gen_eq after the depth guard, r what eval(expr) returned
TryGenEqEval(index, buf, r) ==
    IF ~r.ok \/ r.v < 0 THEN [visit |-> FALSE, buf |-> buf]
    ELSE TryGenEqOk(index, buf, r.v)

\* try_gen_eq: whether the visitor is called, and buf afterwards
try_gen_eq(index, depth, buf) ==
    IF depth > 0 THEN [visit |-> FALSE, buf |-> buf]
    ELSE TryGenEqEval(index, buf, eval(SubSeq(buf, 1, index)))

\* the line line_writer writes for s
line_writer(s) ==
    [k \in 1..Len(s) |-> IF s[k] = "s" THEN "sq"
                         ELSE IF s[k] = "c" THEN "cu" ELSE s[k]]

\* the statements of the body of a call
BodyOf(c, buf) ==
    CASE c.fn = "gen" -> gen(c.extended)
      [] c.fn = "gen_nz_digit" -> gen_nz_digit(c.index, c.depth, buf, c.extended)
      [] c.fn = "gen_digit" -> gen_digit(c.index, c.depth, c.ndigits, buf, c.extended)
      [] c.fn = "gen_oper" -> gen_oper(c.index, c.depth, buf, c.extended)
      [] c.fn = "gen_squared" -> gen_squared(c.index, c.depth, buf)
      [] c.fn = "gen_cubed" -> gen_cubed(c.index, c.depth, buf)
      [] c.fn = "gen_open" -> gen_open(c.index, c.depth, buf)
      [] c.fn = "gen_close" -> gen_close(c.index, c.depth, buf)
      [] OTHER -> <<>>

RECURSIVE Resume(_, _)
\* Run the innermost unfinished call up to its next call: writes are done,
\* a body that has ended returns to its caller.
Resume(st, buf) ==
    IF st = <<>> THEN [stack |-> <<>>, call |-> NoCall, buf |-> buf]
    ELSE LET fr == Head(st)
             body == BodyOf(fr.call, buf)
         IN  IF fr.pc > Len(body) THEN Resume(Tail(st), buf)
             ELSE LET stmt == body[fr.pc]
                      st1 == <<[fr EXCEPT !.pc = @ + 1]>> \o Tail(st)
                  IN  IF stmt.op = "write"
                      THEN Resume(st1, [buf EXCEPT ![stmt.index + 1] = stmt.c])
                      ELSE [stack |-> st1, call |-> stmt, buf |-> buf]

(***************************************************************************)
(* gen as a machine: one step per call, from the entry of a function to    *)
(* the entry of the next function called                                   *)
(***************************************************************************)
MinSlots == 3

MaxSlots == 6

MaxCountSlots == 7

\* the function called is entered and runs, with its callers, to the next call
Enter ==
    /\ LET r == Resume(<<[call |-> geCall, pc |-> 1]>> \o geStack, geBuf)
       IN  /\ geStack' = r.stack
           /\ geCall' = r.call
           /\ geBuf' = r.buf
    /\ UNCHANGED <<geSlots, geExtended, geVisitor, geCt, geFile, geVisited>>
    /\ UNCHANGED <<evalVars, scoreVars, bgVars, sessVars>>

Gen ==
    /\ geCall.fn = "gen"
    /\ Enter

GenNzDigit ==
    /\ geCall.fn = "gen_nz_digit"
    /\ Enter

GenDigit ==
    /\ geCall.fn = "gen_digit"
    /\ Enter

GenOper ==
    /\ geCall.fn = "gen_oper"
    /\ Enter

GenSquared ==
    /\ geCall.fn = "gen_squared"
    /\ Enter

GenCubed ==
    /\ geCall.fn = "gen_cubed"
    /\ Enter

GenOpen ==
    /\ geCall.fn = "gen_open"
    /\ Enter

GenClose ==
    /\ geCall.fn = "gen_close"
    /\ Enter

\* the caller of try_gen_eq goes on with the buffer b
Return(b) ==
    LET r == Resume(geStack, b)
    IN  /\ geStack' = r.stack
        /\ geCall' = r.call
        /\ geBuf' = r.buf

\* what try_gen_eq does with its result t: the visitor is called, or not
Visit(t) ==
    /\ Return(t.buf)
    /\ IF t.visit
       THEN /\ geVisited' = t.buf
            /\ geCt' = geCt + 1
            /\ geFile' = IF geVisitor = "line_writer"
                         THEN Append(geFile, line_writer(t.buf))
                         ELSE geFile
       ELSE UNCHANGED <<geVisited, geCt, geFile>>

\* try_gen_eq and, when it calls it, the visitor
TryGenEq ==
    /\ geCall.fn = "try_gen_eq"
    /\ Visit(try_gen_eq(geCall.index, geCall.depth, geBuf))
    /\ UNCHANGED <<geSlots, geExtended, geVisitor>>
    /\ UNCHANGED <<evalVars, scoreVars, bgVars, sessVars>>

GenNext ==
    \/ Gen
    \/ GenNzDigit
    \/ GenDigit
    \/ GenOper
    \/ GenSquared
    \/ GenCubed
    \/ GenOpen
    \/ GenClose
    \/ TryGenEq

\* gen(slots, visitor, extended) about to be entered
GenStart(n, v, e) ==
    /\ geSlots = n
    /\ geExtended = e
    /\ geVisitor = v
    /\ geBuf = [k \in 1..n |-> "NUL"]
    /\ geStack = <<>>
    /\ geCall = Call("gen", 0, 0, 0, e)
    /\ geCt = 0
    /\ geFile = <<>>
    /\ geVisited = <<>>

\* the gen-*.rs binaries: gen with line_writer
GenInit ==
    \E n \in MinSlots..MaxSlots, e \in BOOLEAN : GenStart(n, "line_writer", e)

InitGen == GenInit /\ EvalIdle /\ ScoreIdle /\ BgIdle /\ SessIdle

SpecGen == InitGen /\ [][GenNext]_vars

\* gen with a counting visitor as in test_gen, not extended
GenCountInit ==
    \E n \in MinSlots..MaxCountSlots : GenStart(n, "counter", FALSE)

InitGenCount == GenCountInit /\ EvalIdle /\ ScoreIdle /\ BgIdle /\ SessIdle

SpecGenCount == InitGenCount /\ [][GenNext]_vars

\* the positions of '=' in s
EqualsAt(s) == {k \in 1..Len(s) : s[k] = "="}

\* no number of s has more than one digit and starts with '0'
NoLeadingZero(s) ==
    \A k \in 1..Len(s) :
        (s[k] = "0" /\ (k = 1 \/ s[k - 1] \notin DigitSet))
            => (k = Len(s) \/ s[k + 1] \notin DigitSet)

\* s is lhs=rhs, lhs evaluates to v >= 0 and rhs is v in decimal
IsEquation(s) ==
    /\ Cardinality(EqualsAt(s)) = 1
    /\ LET e == CHOOSE k \in EqualsAt(s) : TRUE
           lhs == SubSeq(s, 1, e - 1)
           rhs == SubSeq(s, e + 1, Len(s))
           r == eval(lhs)
       IN  /\ r.ok
           /\ r.v >= 0
           /\ rhs # <<>>
           /\ \A k \in 1..Len(rhs) : rhs[k] \in DigitSet
           /\ FromStr(rhs, 1, Len(rhs) + 1, 0) = Ok(r.v)

\* C7: every string gen passes to the visitor has exactly `slots` characters
\* and exactly one '=', its left side is accepted by eval with a non-negative
\* value, its right side is that value in decimal, and no number of more than
\* one digit in it starts with '0'.
C7_EmittedWellFormed ==
    geVisited # <<>> =>
        /\ Len(geVisited) = geSlots
        /\ IsEquation(geVisited)
        /\ NoLeadingZero(geVisited)

\* the visitor has just been given 10-1=9
C7_Witness ==
    /\ geVisited = <<"1", "0", "-", "1", "=", "9">>
    /\ geSlots = 6
    /\ geCt > 0
    /\ geFile # <<>>
    /\ geFile[Len(geFile)] = geVisited

\* C8: with extended = false no string passed to the visitor contains a
\* parenthesis or a square or cube, whatever the slot count.
C8_PlainWhenNotExtended ==
    (~geExtended /\ geVisited # <<>>) =>
        \A k \in 1..Len(geVisited) : geVisited[k] \notin {"(", ")", "s", "c"}

\* the characters of a left side
GenAlphabet(ext) ==
    DigitSet \cup {"-", "+", "*", "/"}
        \cup (IF ext THEN {"(", ")", "s", "c"} ELSE {})

\* every number of s starts with a digit other than '0'
NumbersStartNonZero(s) ==
    \A k \in 1..Len(s) : s[k] = "0" => (k > 1 /\ s[k - 1] \in DigitSet)

\* the equations of n characters whose left side is an expression over
\* GenAlphabet(ext) with numbers that start with a non-zero digit
ValidEquations(n, ext) ==
    LET lhss == {l \in UNION {[1..k -> GenAlphabet(ext)] : k \in 1..(n - 2)} :
                    /\ NumbersStartNonZero(l)
                    /\ eval(l).ok
                    /\ eval(l).v >= 0
                    /\ Len(l) + 1 + Len(Decimal(eval(l).v)) = n}
    IN  {l \o <<"=">> \o Decimal(eval(l).v) : l \in lhss}

\* C9: gen is exhaustive and duplicate-free.  When gen has returned, the
\* lines written are, once each, the equations of `slots` characters whose
\* left side is an expression of the grammar (parentheses and exponents only
\* when extended, numbers starting with a non-zero digit) with a non-negative
\* integer value and whose right side is that value in decimal: no pruning
\* has lost one.  5 slots not extended give 127 lines, 6 slots extended 404.
C9_ExhaustiveNoDuplicates ==
    (geCall = NoCall /\ geVisitor = "line_writer") =>
        /\ geCt = Len(geFile)
        /\ Cardinality(Range(geFile)) = Len(geFile)
        /\ (geSlots = 5 /\ ~geExtended) => geCt = 127
        /\ (geSlots = 6 /\ geExtended) => geCt = 404
        /\ Range(geFile) = {line_writer(e) : e \in ValidEquations(geSlots, geExtended)}

\* C11: eval is total over its error contract.  Whatever the input, when
\* eval is done it has returned an i32 or an error (a parse error, Fail or
\* Float), never aborted; an overflow of an operation of the integer pass,
\* the division of the minimum integer by -1 included, is an error result.
C11_EvalTotal ==
    evPc = "done" =>
        /\ \/ evRes.ok /\ evRes.v >= I32Min /\ evRes.v <= I32Max
           \/ ~evRes.ok /\ evRes.e \in {"Error", "Fail", "Float"}
        /\ evIn \in OverflowExprs =>
               (evRes.ok => evRes.v \in {I32Min, (I32Min \div 2)})

\* the candidates a corpus can hold for the guess of this run: the words of
\* the guess's length over the run's characters
Candidates == [1..Len(guess) -> ScoreAlphabet \cup Range(guess) \cup Range(truth)]

\* C12: filtering by a mask that score produced keeps exactly the candidates
\* that would have produced the same feedback.  For every candidate c of the
\* guess's length, matches_mask(c, score(guess, truth)) holds if and only if
\* score(guess, c) = score(guess, truth); and so, in compute_entropy over a
\* corpus holding truth and c, the number of items matching the mask equals
\* the number of items that produced it.
C12_FilterKeepsSameFeedback ==
    scPc = "done" =>
        \A c \in Candidates :
            /\ matches_mask(c, mask) <=> (score(guess, c) = mask)
            /\ Matching(mask, <<truth, c>>) = MaskCounts(guess, <<truth, c>>)[mask]

\* a run whose guess repeats a character, with a candidate other than the
\* truth that the mask keeps and a candidate of the truth's characters that
\* it drops
C12_Witness ==
    /\ scPc = "done"
    /\ mask = score(guess, truth)
    /\ \E k, l \in 1..Len(guess) : k # l /\ guess[k] = guess[l]
    /\ mask.correct # {} /\ mask.not_present # {}
    /\ \E c \in Candidates : c # truth /\ matches_mask(c, mask)
    /\ \E c \in Candidates : Range(c) = Range(truth) /\ ~matches_mask(c, mask)

=============================================================================
